---- MODULE Spec2Model ----
(***************************************************************************)
(* State-machine model of the WS90 Prometheus exporter                     *)
(* (src/ws90_prometheus): the subprocess stream reader (WS90Reader), the   *)
(* blinker broadcast, the local registry publisher (PrometheusPublisher)   *)
(* with its per-device ResettableTimer, the remote publisher               *)
(* (VictoriaMetricsPublisher) and the coordinator (WS90PromDaemon).        *)
(*                                                                         *)
(* Threads: the main thread (WS90PromDaemon.run), the reader thread (one   *)
(* asyncio loop running both stream drains and, synchronously inside the   *)
(* stdout drain, every subscriber's data_callback), and one                *)
(* threading.Timer thread per arm of a ResettableTimer.  The reader        *)
(* thread and the timer threads share the metrics registry; a step of the  *)
(* model is one statement (one loop over a field table) of a handler.      *)
(*                                                                         *)
(* Numbers published to gauges are kept in fixed point, in thousandths:    *)
(* the JSON number 21.5 is 21500, and x / 1000 is integer division of the  *)
(* representation by 1000.                                                 *)
(***************************************************************************)
EXTENDS Integers, Sequences, FiniteSets, TLC

\* ------------------------------------------------------------------ bounds

\* stdout lines the child writes before it closes stdout
MaxLines == 2
\* stderr lines the child writes before it closes stderr
MaxErrLines == 1
\* the clear interval, in clock ticks, when expiry is enabled (--clear)
Interval == 1

\* ------------------------------------------------------- static tables

\* daemon.py FIELDS: (json key, metric name, postprocess)
FIELDS ==
    << [key |-> "temperature_C", name |-> "ws90_temperature_celsius", post |-> "none"],
       [key |-> "humidity",      name |-> "ws90_humidity_ratio",      post |-> "none"],
       [key |-> "battery_ok",    name |-> "ws90_battery_ratio",       post |-> "none"],
       [key |-> "battery_mV",    name |-> "ws90_battery_volts",       post |-> "div1000"],
       [key |-> "supercap_V",    name |-> "ws90_supercap_volts",      post |-> "none"],
       [key |-> "wind_dir_deg",  name |-> "ws90_wind_dir_degrees",    post |-> "none"],
       [key |-> "wind_avg_m_s",  name |-> "ws90_wind_avg_speed",      post |-> "none"],
       [key |-> "wind_max_m_s",  name |-> "ws90_wind_gust_speed",     post |-> "none"],
       [key |-> "uvi",           name |-> "ws90_uvi",                 post |-> "none"],
       [key |-> "light_lux",     name |-> "ws90_light_lux",           post |-> "none"],
       [key |-> "rain_mm",       name |-> "ws90_rain_m",              post |-> "div1000"],
       [key |-> "rain_start",    name |-> "ws90_rain_start",          post |-> "none"] >>

\* daemon.py FIELDS_MODEL: (metric name, keys attached as info payload)
FIELDS_MODEL ==
    << [name |-> "ws90_model", keys |-> <<"firmware", "model">>] >>

NF == Len(FIELDS)
NI == Len(FIELDS_MODEL)

FieldKeys == { FIELDS[i].key : i \in 1..NF }

\* the model string process_data accepts
ExpectedModel == "Fineoffset-WS90"

\* ------------------------------------------------------------ JSON values

\* A JSON scalar used as `id`: an integer n, or the string of n's decimal
\* digits; AbsentId stands for an object without the key.
IntId(n) == [t |-> "int", v |-> n]
StrId(n) == [t |-> "str", v |-> n]
AbsentId == [t |-> "absent", v |-> 0]

\* str(device_id), the label value prometheus_client stores: str(100) and
\* str("100") are the same label.  A label is kept as the number it spells.
LabelOf(id) == id.v

\* Python's `device_id in self.device_ids` for a list of ints: == on each
\* element; a str never equals an int.
InDeviceIds(id, ids) == \E i \in 1..Len(ids) : id.t = "int" /\ id.v = ids[i]

\* format(device_id, "x") in the debug f-string: defined for int only.
HexFormattable(id) == id.t = "int"

\* lambda x: x / 1000 (mV to V, mm to m), on the fixed-point representation
Div1000(x) == x \div 1000

\* PrometheusPublisher._postprocess and the same branch in
\* VictoriaMetricsPublisher._construct_metrics
PostprocessValue(post, x) == IF post = "div1000" THEN Div1000(x) ELSE x

\* ---------------------------------------------------------------- inputs

\* Raw sensor values of value set 1 (the spec's scenario and fake.py's
\* ranges), fixed point; value set n adds n - 1 units to each.
BaseValue(k) ==
    CASE k = "temperature_C" -> 21500
      [] k = "humidity"      -> 40000
      [] k = "battery_ok"    -> 1000
      [] k = "battery_mV"    -> 2800000
      [] k = "supercap_V"    -> 5000
      [] k = "wind_dir_deg"  -> 180000
      [] k = "wind_avg_m_s"  -> 3000
      [] k = "wind_max_m_s"  -> 4000
      [] k = "uvi"           -> 2000
      [] k = "light_lux"     -> 100000
      [] k = "rain_mm"       -> 12000
      [] k = "rain_start"    -> 0

\* A decoded JSON object: a function from the keys it carries to their
\* values.  `model` is a string or "" for absent; `id` an id value or
\* AbsentId; `miss` the sensor/meta keys the object lacks.
Reading(model, id, miss, variant) ==
    LET keys == ((FieldKeys \cup {"firmware", "time"}) \ miss)
                  \cup (IF model = "" THEN {} ELSE {"model"})
                  \cup (IF id = AbsentId THEN {} ELSE {"id"})
    IN [ k \in keys |->
           CASE k = "model"    -> model
             [] k = "id"       -> id
             [] k = "firmware" -> 126
             [] k = "time"     -> "2024-01-01 00:00:00"
             [] OTHER          -> BaseValue(k) + (variant - 1) * 1000 ]

InputModels == {ExpectedModel, "Other", ""}
InputIds == {IntId(100), IntId(5), StrId(100), AbsentId}
InputMiss == { {}, {"rain_start"}, {"firmware"} }
InputVariants == {1, 2}

Objects ==
    { Reading(m, i, ms, v) :
        m \in InputModels, i \in InputIds, ms \in InputMiss, v \in InputVariants }

\* A stdout line as the child wrote it: bytes that are not UTF-8, text that
\* is not JSON, JSON that is not an object, or a JSON object.
NoData == [ k \in {} |-> 0 ]
StdoutLines ==
    { [kind |-> k, obj |-> NoData] : k \in {"badutf8", "text", "scalar"} }
      \cup { [kind |-> "object", obj |-> o] : o \in Objects }

\* stderr lines: blank, a diagnostic message, or bytes that are not UTF-8
StderrLines == {"blank", "text", "badutf8"}

\* Outcome of one requests.post + raise_for_status
PostOutcomes == {"ok", "http_error", "conn_error", "hang"}

\* Exit codes of the child
ExitCodes == {0, 1}

\* ----------------------------------------------------------------- state

VARIABLES
    device_ids,      \* WS90Reader.device_ids: the allow-list (list of int)
    clear_interval,  \* PrometheusPublisher.clear_interval
    receivers,       \* the connected data_callbacks, in the order send calls them
    mpc,             \* main thread: position in WS90PromDaemon.run
    exit_code,       \* the process's exit status once it has ended, else -1
    state,           \* reader: Idle, Starting, Running, Exited, Failed
    future,          \* exc_watcher: pending, or its result / exception
    rpc,             \* reader thread: what it is executing
    data,            \* the reading being broadcast (signal.send's argument)
    hidx,            \* index in receivers of the handler being run
    pos,             \* position inside PrometheusPublisher.data_callback
    out_n, err_n,    \* lines read so far from stdout / stderr
    out_eof, err_eof,\* the stream's read loop has seen end-of-stream
    metrics,         \* json key -> (label -> gauge value): the gauges' series
    model_info,      \* info name -> (label -> payload): the info series
    timers,          \* PrometheusPublisher.timers: device_id -> ResettableTimer
    threads,         \* the threading.Timer threads, by creation order
    posted,          \* POSTs submitted by the remote publisher for `data`
    last,            \* the last stdout line handled and what became of it
                     \* (obj: the reading broadcast; again / same_dev: the
                     \* line before it broadcast the same reading / a
                     \* reading of the same device id)
    delivered,       \* handlers whose data_callback was called for `last`
    since,           \* ticks since data_callback last completed, per device_id
    log              \* the last log record written by the reader or main thread

vars == << device_ids, clear_interval, receivers, mpc, exit_code, state, future, rpc, data,
           hidx, pos, out_n, err_n, out_eof, err_eof, metrics, model_info,
           timers, threads, posted, last, delivered, since, log >>

config == << device_ids, clear_interval, receivers >>
main == << mpc, exit_code >>
streams == << out_n, err_n, out_eof, err_eof >>
registry == << metrics, model_info >>

Pending == [st |-> "pending", rc |-> 0, exc |-> ""]
NoThread == [st |-> "new", args |-> << "", AbsentId, 0 >>, rem |-> 0, pos |-> 0]
NoLine == [kind |-> "none", model |-> "", id |-> AbsentId, sent |-> 0,
           verdict |-> "none", raised |-> "", obj |-> NoData, again |-> FALSE,
           same_dev |-> FALSE]

\* partial functions
SetAt(f, x, v) == [ y \in DOMAIN f \cup {x} |-> IF y = x THEN v ELSE f[y] ]
RemoveAt(f, x) == [ y \in DOMAIN f \ {x} |-> f[y] ]

DoneThread == [st |-> "done", args |-> NoThread.args, rem |-> 0, pos |-> 0]

\* ---------------------------------------------------------- configuration

\* --id values as_number accepts (decimal or 0x-prefixed), already parsed
AllowLists == { << >>, << 100 >> }

\* blinker keeps the connected receivers in a set and send() calls them in
\* that set's iteration order: any order of the connected handlers, fixed
\* for the life of the process.
ReceiverOrders == { << "prom" >>, << "prom", "vm" >>, << "vm", "prom" >> }

\* WS90PromDaemon.__init__: the order of the sig.connect calls, the local
\* publisher first and the remote one after it when a base URL is given
ConnectOrder(rs) ==
    IF \E i \in 1..Len(rs) : rs[i] = "vm" THEN << "prom", "vm" >> ELSE << "prom" >>

Init ==
    /\ device_ids \in AllowLists
    /\ clear_interval \in {0, Interval}
    /\ receivers \in ReceiverOrders
    /\ mpc = "init"
    /\ exit_code = -1
    /\ state = "Idle"
    /\ future = Pending
    /\ rpc = "idle"
    /\ data = NoData
    /\ hidx = 0
    /\ pos = 0
    /\ out_n = 0 /\ err_n = 0
    /\ out_eof = FALSE /\ err_eof = FALSE
    /\ metrics = [ k \in FieldKeys |-> NoData ]
    /\ model_info = [ n \in { FIELDS_MODEL[i].name : i \in 1..NI } |-> NoData ]
    /\ timers = NoData
    /\ threads = [ t \in 1..MaxLines |-> NoThread ]
    /\ posted = << >>
    /\ last = NoLine
    /\ delivered = << >>
    /\ since = NoData
    /\ log = ""

\* ------------------------------------------------------------- the reader

\* process_data without its model test (faulty variant)
ProcessDataAnyModel(o, ids) ==
    IF "id" \notin DOMAIN o
      THEN "drop_noid"
    ELSE IF Len(ids) > 0 /\ ~InDeviceIds(o["id"], ids)
      THEN (IF HexFormattable(o["id"]) THEN "drop_filtered" ELSE "ValueError")
    ELSE "send"

\* process_data without its allow-list test (faulty variant)
ProcessDataAnyId(o, ids) ==
    IF (IF "model" \in DOMAIN o THEN o["model"] ELSE "") # ExpectedModel
      THEN "drop_model"
    ELSE IF "id" \notin DOMAIN o
      THEN "drop_noid"
    ELSE "send"

\* WS90Reader.process_data's decision for a decoded object
ProcessData(o, ids) ==
    IF (IF "model" \in DOMAIN o THEN o["model"] ELSE "") # ExpectedModel
      THEN "drop_model"
    ELSE IF "id" \notin DOMAIN o
      THEN "drop_noid"
    ELSE IF Len(ids) > 0 /\ ~InDeviceIds(o["id"], ids)
      THEN (IF HexFormattable(o["id"]) THEN "drop_filtered" ELSE "ValueError")
    ELSE "send"

\* _read_stream's line.decode + read_stdout: what handling one line comes to
ReadLine(line, ids) ==
    CASE line.kind = "badutf8" -> "UnicodeDecodeError"
      [] line.kind = "text"    -> "malformed"
      [] line.kind = "scalar"  -> "AttributeError"
      [] OTHER                 -> ProcessData(line.obj, ids)

IsException(v) == v \in {"UnicodeDecodeError", "AttributeError", "ValueError"}

LogOf(v) ==
    CASE v = "malformed"     -> "error:parse"
      [] v = "drop_noid"     -> "error:noid"
      [] v = "drop_filtered" -> "debug:filtered"
      [] v = "send"          -> "debug:received"
      [] OTHER               -> log

\* run() with an except branch that drops the exception (faulty variant)
FailSilently(exc) ==
    /\ state' = "Failed"
    /\ future' = future
    /\ rpc' = "done"

\* WS90Reader.run's except branch: the exception ends asyncio.run and is
\* handed to the future.
Fail(exc) ==
    /\ state' = "Failed"
    /\ future' = [st |-> "exception", rc |-> 0, exc |-> exc]
    /\ rpc' = "done"

\* a handler raised: send() and process_data propagate it to run()
HandlerRaise(exc) ==
    /\ Fail(exc)
    /\ last' = [last EXCEPT !.raised = receivers[hidx]]
    /\ data' = NoData
    /\ hidx' = 0
    /\ pos' = 0
    /\ delivered' = delivered

\* a handler returned: send() calls the next receiver, or returns
HandlerReturn ==
    /\ IF hidx < Len(receivers)
         THEN /\ rpc' = receivers[hidx + 1]
              /\ hidx' = hidx + 1
              /\ pos' = 1
              /\ delivered' = Append(delivered, receivers[hidx + 1])
         ELSE /\ rpc' = "gather"
              /\ hidx' = 0
              /\ pos' = 0
              /\ delivered' = delivered
    /\ data' = IF hidx < Len(receivers) THEN data ELSE NoData
    /\ UNCHANGED << state, future, last >>

\* WS90PromDaemon.run: thr_reader.start()
DaemonStart ==
    /\ mpc = "init"
    /\ mpc' = "result"
    /\ state' = "Starting"
    /\ rpc' = "spawn"
    /\ UNCHANGED << config, exit_code, future, data, hidx, pos, streams,
                    registry, timers, threads, posted, last, delivered, since, log >>

\* background_job: create_subprocess_exec
Spawn ==
    /\ rpc = "spawn"
    /\ \E ok \in BOOLEAN :
         IF ok THEN /\ state' = "Running"
                    /\ rpc' = "gather"
                    /\ future' = future
               ELSE Fail("OSError")
    /\ UNCHANGED << config, main, data, hidx, pos, streams, registry, timers,
                    threads, posted, last, delivered, since, log >>

\* one iteration of _read_stream(stdout, read_stdout) that gets a line
ReadStdout ==
    /\ rpc = "gather" /\ ~out_eof /\ out_n < MaxLines
    /\ \E line \in StdoutLines :
         LET v == ReadLine(line, device_ids)
             o == line.obj
         IN /\ out_n' = out_n + 1
            /\ log' = LogOf(v)
            /\ last' = [ kind |-> line.kind,
                         model |-> IF "model" \in DOMAIN o THEN o["model"] ELSE "",
                         id |-> IF "id" \in DOMAIN o THEN o["id"] ELSE AbsentId,
                         sent |-> IF v = "send" THEN 1 ELSE 0,
                         verdict |-> v,
                         raised |-> "",
                         obj |-> IF v = "send" THEN o ELSE NoData,
                         again |-> v = "send" /\ last.sent = 1 /\ last.obj = o,
                         same_dev |-> v = "send" /\ last.sent = 1
                                        /\ last.id = o["id"] ]
            /\ IF v = "send"
                 THEN /\ data' = o
                      /\ rpc' = receivers[1]
                      /\ hidx' = 1
                      /\ pos' = 1
                      /\ delivered' = << receivers[1] >>
                      /\ posted' = << >>
                      /\ UNCHANGED << state, future >>
               ELSE IF IsException(v)
                 THEN /\ Fail(v)
                      /\ delivered' = << >>
                      /\ UNCHANGED << data, hidx, pos, posted >>
               ELSE /\ delivered' = << >>
                    /\ UNCHANGED << state, future, rpc, data, hidx, pos, posted >>
    /\ UNCHANGED << config, main, err_n, out_eof, err_eof, registry, timers,
                    threads, since >>

\* _read_stream(stdout, ...): readline returns b"" and the loop ends
StdoutEOF ==
    /\ rpc = "gather" /\ ~out_eof
    /\ out_eof' = TRUE
    /\ rpc' = IF err_eof THEN "wait" ELSE "gather"
    /\ UNCHANGED << config, main, state, future, data, hidx, pos, out_n, err_n,
                    err_eof, registry, timers, threads, posted, last, delivered,
                    since, log >>

\* one iteration of _read_stream(stderr, read_stderr) that gets a line
ReadStderr ==
    /\ rpc = "gather" /\ ~err_eof /\ err_n < MaxErrLines
    /\ \E line \in StderrLines :
         /\ err_n' = err_n + 1
         /\ IF line = "badutf8"
              THEN Fail("UnicodeDecodeError") /\ log' = log
              ELSE /\ log' = IF line = "text" THEN "warning:rtl_433" ELSE log
                   /\ UNCHANGED << state, future, rpc >>
    /\ UNCHANGED << config, main, data, hidx, pos, out_n, out_eof, err_eof,
                    registry, timers, threads, posted, last, delivered, since >>

\* _read_stream(stderr, ...): end of stream
StderrEOF ==
    /\ rpc = "gather" /\ ~err_eof
    /\ err_eof' = TRUE
    /\ rpc' = IF out_eof THEN "wait" ELSE "gather"
    /\ UNCHANGED << config, main, state, future, data, hidx, pos, out_n, err_n,
                    out_eof, registry, timers, threads, posted, last, delivered,
                    since, log >>

\* background_job after gather: rc = await p.wait(); future.set_result(rc)
\* and the debug record of the exit code
WaitChild ==
    /\ rpc = "wait"
    /\ \E rc \in ExitCodes :
         future' = [st |-> "result", rc |-> rc, exc |-> ""]
    /\ state' = "Exited"
    /\ rpc' = "done"
    /\ log' = "debug:exited"
    /\ UNCHANGED << config, main, data, hidx, pos, streams, registry, timers,
                    threads, posted, last, delivered, since >>

\* ------------------------------------------------------ ResettableTimer

\* threading.Timer.cancel(): sets the timer's finished event.  A thread
\* still waiting then ends without calling its function; one that has
\* already tested the event and is running the function is not affected.
Cancel(ths, t) ==
    IF t # 0 /\ ths[t].st = "waiting"
      THEN [ths EXCEPT ![t] = DoneThread]
      ELSE ths

\* the next threading.Timer thread to be created
NewThread(ths) == CHOOSE t \in DOMAIN ths :
                    /\ ths[t].st = "new"
                    /\ \A u \in DOMAIN ths : ths[u].st = "new" => t <= u

\* ResettableTimer.start() without the cancel of the pending timer
\* (faulty variant)
TimerStartNoCancel(tms, ths, key) ==
    LET t == NewThread(ths)
    IN [ timers  |-> [tms EXCEPT ![key].timer = t],
         threads |-> [ths EXCEPT ![t] =
                        [st |-> "waiting", args |-> tms[key].args,
                         rem |-> tms[key].interval, pos |-> 0]] ]

\* ResettableTimer.start() on self.timers[key]: cancel the pending timer,
\* then _start_timer(): a new threading.Timer(interval, function, args).
\* Yields the publisher's timers and the threads afterwards.
TimerStart(tms, ths, key) ==
    LET cancelled == Cancel(ths, tms[key].timer)
        t == NewThread(cancelled)
    IN [ timers  |-> [tms EXCEPT ![key].timer = t],
         threads |-> [cancelled EXCEPT ![t] =
                        [st |-> "waiting", args |-> tms[key].args,
                         rem |-> tms[key].interval, pos |-> 0]] ]

\* set_timer without its test for a zero interval (faulty variant)
SetTimerAlways(tms, ths, interval, model, device_id, firmware) ==
    LET known == IF device_id \in DOMAIN tms
                   THEN tms
                   ELSE SetAt(tms, device_id,
                              [timer |-> 0, interval |-> interval,
                               args |-> << model, device_id, firmware >>])
    IN TimerStart(known, ths, device_id)

\* PrometheusPublisher.set_timer: nothing when clear_interval is 0; else
\* the device's ResettableTimer is created on its first reading, and started
SetTimer(tms, ths, interval, model, device_id, firmware) ==
    IF interval = 0 THEN [timers |-> tms, threads |-> ths]
    ELSE LET known == IF device_id \in DOMAIN tms
                        THEN tms
                        ELSE SetAt(tms, device_id,
                                   [timer |-> 0, interval |-> interval,
                                    args |-> << model, device_id, firmware >>])
         IN TimerStart(known, ths, device_id)

\* ------------------------------------------------ PrometheusPublisher

\* model_info.labels(device_id).info({k: data[k] for k in keys}): labels()
\* creates the series (empty payload) before the payload is evaluated
InfoHas(d, rd) == \A i \in 1..Len(d.keys) : d.keys[i] \in DOMAIN rd

InfoSet(seriesOf, d, lbl, rd) ==
    LET old == IF lbl \in DOMAIN seriesOf THEN seriesOf[lbl] ELSE << >>
        new == IF InfoHas(d, rd) THEN [ i \in 1..Len(d.keys) |-> rd[d.keys[i]] ] ELSE old
    IN SetAt(seriesOf, lbl, new)

\* v.labels(device_id).set(self._postprocess(data, k)): labels() creates the
\* series (value 0) before _postprocess reads data[k]
GaugeSet(seriesOf, f, lbl, rd) ==
    LET old == IF lbl \in DOMAIN seriesOf THEN seriesOf[lbl] ELSE 0
        new == IF f.key \in DOMAIN rd
                 THEN PostprocessValue(f.post, rd[f.key]) ELSE old
    IN SetAt(seriesOf, lbl, new)

\* index of the first info descriptor / field whose statement raises
\* KeyError for this reading: one past the table if none does
FirstBadInfo(rd) ==
    IF \A i \in 1..NI : InfoHas(FIELDS_MODEL[i], rd) THEN NI + 1
    ELSE CHOOSE i \in 1..NI :
           /\ ~InfoHas(FIELDS_MODEL[i], rd)
           /\ \A j \in 1..(i - 1) : InfoHas(FIELDS_MODEL[j], rd)

FirstBadField(rd) ==
    IF \A i \in 1..NF : FIELDS[i].key \in DOMAIN rd THEN NF + 1
    ELSE CHOOSE i \in 1..NF :
           /\ FIELDS[i].key \notin DOMAIN rd
           /\ \A j \in 1..(i - 1) : FIELDS[j].key \in DOMAIN rd

\* data_callback's loop over self.model_info, up to the statement that raises
InfoLoop(mi, lbl, rd) ==
    [ n \in DOMAIN mi |->
        IF \E i \in 1..NI : i <= FirstBadInfo(rd) /\ FIELDS_MODEL[i].name = n
          THEN InfoSet(mi[n], CHOOSE d \in { FIELDS_MODEL[i] : i \in 1..NI } : d.name = n,
                       lbl, rd)
          ELSE mi[n] ]

\* data_callback's loop over self.metrics, up to the statement that raises
GaugeLoop(ms, lbl, rd) ==
    [ k \in DOMAIN ms |->
        IF \E i \in 1..NF : i <= FirstBadField(rd) /\ FIELDS[i].key = k
          THEN GaugeSet(ms[k], CHOOSE f \in { FIELDS[i] : i \in 1..NF } : f.key = k,
                        lbl, rd)
          ELSE ms[k] ]

\* PrometheusPublisher.data_callback, run by the reader thread inside
\* signal.send, one statement a step: the loop over the info metrics
\* (pos 1), the loop over the gauges (pos 2), then set_timer (pos 3)
PromStep ==
    /\ rpc = "prom"
    /\ LET device_id == data["id"]
           lbl == LabelOf(device_id)
       IN IF pos = 1
            THEN /\ model_info' = InfoLoop(model_info, lbl, data)
                 /\ IF FirstBadInfo(data) > NI
                      THEN /\ pos' = 2
                           /\ UNCHANGED << state, future, rpc, data, hidx, delivered, last >>
                      ELSE HandlerRaise("KeyError")
                 /\ UNCHANGED << metrics, timers, threads, since >>
          ELSE IF pos = 2
            THEN /\ metrics' = GaugeLoop(metrics, lbl, data)
                 /\ IF FirstBadField(data) > NF
                      THEN /\ pos' = 3
                           /\ UNCHANGED << state, future, rpc, data, hidx, delivered, last >>
                      ELSE HandlerRaise("KeyError")
                 /\ UNCHANGED << model_info, timers, threads, since >>
          ELSE IF ~({"model", "firmware"} \subseteq DOMAIN data)
            THEN /\ HandlerRaise("KeyError")
                 /\ UNCHANGED << registry, timers, threads, since >>
          ELSE /\ LET r == SetTimer(timers, threads, clear_interval,
                                      data["model"], device_id, data["firmware"])
                  IN timers' = r.timers /\ threads' = r.threads
               /\ since' = SetAt(since, device_id, 0)
               /\ HandlerReturn
               /\ UNCHANGED registry
    /\ UNCHANGED << config, main, streams, posted, log >>

\* threading.Timer.run: finished.wait(interval) timed out and the event was
\* found not set, so the thread goes on to call clear_metrics(*args)
TimerExpire(t) ==
    /\ threads[t].st = "waiting" /\ threads[t].rem = 0
    /\ threads' = [threads EXCEPT ![t].st = "clearing", ![t].pos = 1]
    /\ UNCHANGED << config, main, state, future, rpc, data, hidx, pos, streams,
                    registry, timers, posted, last, delivered, since, log >>

\* Gauge.remove / Info.remove of one label: drops the series if it is there
RemoveSeries(seriesOf, lbl) == RemoveAt(seriesOf, lbl)

\* a loop that empties every metric of the table instead (faulty variant)
RemoveEveryLabel(tbl, lbl) == [ n \in DOMAIN tbl |-> NoData ]

\* one loop of clear_metrics: m.remove(device_id) for every metric of a table
RemoveAll(tbl, lbl) == [ n \in DOMAIN tbl |-> RemoveSeries(tbl[n], lbl) ]

\* PrometheusPublisher.clear_metrics(model, device_id, firmware), run by a
\* timer thread, one loop a step: over the gauges (pos 1), then over the
\* info metrics (pos 2), after which the thread ends
ClearStep(t) ==
    /\ threads[t].st = "clearing"
    /\ LET lbl == LabelOf(threads[t].args[2])
       IN IF threads[t].pos = 1
            THEN /\ metrics' = RemoveAll(metrics, lbl)
                 /\ model_info' = model_info
                 /\ threads' = [threads EXCEPT ![t].pos = 2]
            ELSE /\ model_info' = RemoveAll(model_info, lbl)
                 /\ metrics' = metrics
                 /\ threads' = [threads EXCEPT ![t] = DoneThread]
    /\ UNCHANGED << config, main, state, future, rpc, data, hidx, pos, streams,
                    timers, posted, last, delivered, since, log >>

\* one unit of time passes
Tick ==
    /\ (\E t \in DOMAIN threads : threads[t].st = "waiting" /\ threads[t].rem > 0)
         \/ (\E d \in DOMAIN since : since[d] < Interval)
    /\ threads' = [ t \in DOMAIN threads |->
                      IF threads[t].st = "waiting" /\ threads[t].rem > 0
                        THEN [threads[t] EXCEPT !.rem = @ - 1]
                        ELSE threads[t] ]
    /\ since' = [ d \in DOMAIN since |->
                    IF since[d] < Interval THEN since[d] + 1 ELSE since[d] ]
    /\ UNCHANGED << config, main, state, future, rpc, data, hidx, pos, streams,
                    registry, timers, posted, last, delivered, log >>

\* ------------------------------------------- VictoriaMetricsPublisher

\* The payloads data_callback builds, in order: _construct_metrics (its loop
\* over metrics_data ends with `break`, so only the first field is in it),
\* then one _construct_modelinfo per model_data entry.  ok is FALSE where
\* building the payload reads a key the reading lacks.
VmPlan(rd) ==
    LET first == IF NF = 0 THEN << >> ELSE
                   << [ ok |-> FIELDS[1].key \in DOMAIN rd,
                        role |-> "metric",
                        name |-> FIELDS[1].name,
                        value |-> IF FIELDS[1].key \in DOMAIN rd
                                    THEN PostprocessValue(FIELDS[1].post, rd[FIELDS[1].key])
                                    ELSE 0,
                        labels |-> << >> ] >>
        infos == [ i \in 1..NI |->
                   LET d == FIELDS_MODEL[i]
                       have == \A j \in 1..Len(d.keys) : d.keys[j] \in DOMAIN rd
                   IN [ ok |-> have,
                        role |-> "info",
                        name |-> d.name,
                        value |-> 1000,
                        labels |-> IF have THEN [ j \in 1..Len(d.keys) |-> rd[d.keys[j]] ]
                                           ELSE << >> ] ]
    IN first \o infos

\* _post for each payload in turn, until one raises or hangs
RECURSIVE VmPosts(_, _, _, _, _)
VmPosts(plan, outs, device_id, i, acc) ==
    IF i > Len(plan) THEN [posted |-> acc, result |-> "ok"]
    ELSE IF ~plan[i].ok THEN [posted |-> acc, result |-> "KeyError"]
    ELSE LET sent == Append(acc, [ id |-> device_id, role |-> plan[i].role,
                                   name |-> plan[i].name, value |-> plan[i].value,
                                   labels |-> plan[i].labels, res |-> outs[i] ])
         IN CASE outs[i] = "ok"         -> VmPosts(plan, outs, device_id, i + 1, sent)
              [] outs[i] = "http_error" -> [posted |-> sent, result |-> "HTTPError"]
              [] outs[i] = "conn_error" -> [posted |-> sent, result |-> "ConnectionError"]
              [] OTHER                  -> [posted |-> sent, result |-> "hang"]

\* VictoriaMetricsPublisher.data_callback, run by the reader thread inside
\* signal.send; it touches nothing the timer threads use
VmCallback ==
    /\ rpc = "vm"
    /\ \E outs \in [ 1..Len(VmPlan(data)) -> PostOutcomes ] :
         LET r == IF "time" \notin DOMAIN data
                    THEN [posted |-> << >>, result |-> "KeyError"]
                    ELSE VmPosts(VmPlan(data), outs, data["id"], 1, << >>)
         IN /\ posted' = r.posted
            /\ IF r.result = "ok" THEN HandlerReturn
               ELSE IF r.result = "hang"
                 THEN /\ rpc' = "blocked"
                      /\ UNCHANGED << state, future, data, hidx, pos, delivered, last >>
               ELSE HandlerRaise(r.result)
    /\ UNCHANGED << config, main, streams, registry, timers, threads,
                    since, log >>

\* ------------------------------------------------------- WS90PromDaemon

\* WS90PromDaemon.run from exc_watcher.result() on: the wait returns or
\* raises once the future is resolved, the exception is logged, and the two
\* joins return (the reader thread ends when it resolves the future)
DaemonResult ==
    /\ mpc = "result" /\ future.st # "pending"
    /\ mpc' = "returned"
    /\ log' = IF future.st = "exception" THEN "exception:reader" ELSE log
    /\ UNCHANGED << config, exit_code, state, future, rpc, data, hidx, pos,
                    streams, registry, timers, threads, posted, last, delivered,
                    since >>

\* The main module after run() (ws90-prometheus.py ends after the two
\* joins): the interpreter waits for the threads that are not daemon
\* threads - the timer threads still waiting or clearing - and the process
\* ends; no sys.exit is called and no exception is left unhandled, so its
\* exit status is 0 whatever the future carried.
ProcessExit ==
    /\ mpc = "returned"
    /\ \A t \in DOMAIN threads : threads[t].st \notin {"waiting", "clearing"}
    /\ mpc' = "exited"
    /\ exit_code' = 0
    /\ UNCHANGED << config, state, future, rpc, data, hidx, pos, streams,
                    registry, timers, threads, posted, last, delivered, since,
                    log >>

\* ------------------------------------------------------- specifications

Next ==
    \/ DaemonStart
    \/ Spawn
    \/ ReadStdout
    \/ StdoutEOF
    \/ ReadStderr
    \/ StderrEOF
    \/ WaitChild
    \/ PromStep
    \/ VmCallback
    \/ \E t \in DOMAIN threads : TimerExpire(t)
    \/ \E t \in DOMAIN threads : ClearStep(t)
    \/ Tick
    \/ DaemonResult
    \/ ProcessExit

Spec == Init /\ [][Next]_vars

\* Spec with the progress the threads and the child give: the main thread
\* and the reader thread are operating-system threads that run whenever
\* they are not blocked (start, spawn, a handler's next statement, the
\* wait for the child, the wake-up of exc_watcher.result(), the end of the
\* main module), and a child that has closed a stream makes the pending
\* readline() of that stream return b"".  Nothing makes a POST return, a
\* line arrive, or is assumed of the timer threads.
FairSpec ==
    /\ Spec
    /\ WF_vars(DaemonStart)
    /\ WF_vars(Spawn)
    /\ WF_vars(StdoutEOF)
    /\ WF_vars(StderrEOF)
    /\ WF_vars(PromStep)
    /\ WF_vars(VmCallback)
    /\ WF_vars(WaitChild)
    /\ WF_vars(DaemonResult)

\* ------------------------------------------------------------ properties

\* the registry exposes at least one series with this label
HasSeries(lbl) ==
    \/ \E k \in DOMAIN metrics : lbl \in DOMAIN metrics[k]
    \/ \E n \in DOMAIN model_info : lbl \in DOMAIN model_info[n]

\* the registry exposes every gauge and every info series with this label
HasAllSeries(lbl) ==
    /\ \A k \in DOMAIN metrics : lbl \in DOMAIN metrics[k]
    /\ \A n \in DOMAIN model_info : lbl \in DOMAIN model_info[n]

\* a step in which the stdout loop handled one more line
HandledLine == out_n' = out_n + 1

\* the line just handled is a JSON object whose model is absent or not the
\* expected one
ModelMismatch(l) == l.kind = "object" /\ l.model # ExpectedModel

\* the id is one of the allow-list's integers
Allowed(id, ids) == id.t = "int" /\ \E i \in 1..Len(ids) : ids[i] = id.v

\* C1: handling a stdout line that decodes to a JSON object whose model is
\* absent or differs from "Fineoffset-WS90" never calls signal.send: no
\* handler is entered, and the registry, the timers and the POSTs are as they
\* were, whatever the id, the other keys, the allow-list and the lines before.
C1_ModelMismatchNeverBroadcast ==
    [][ (HandledLine /\ ModelMismatch(last'))
          => /\ last'.sent = 0
             /\ delivered' = << >>
             /\ rpc' = "gather" /\ data' = NoData
             /\ UNCHANGED << registry, timers, threads, posted, state, future >> ]_vars

\* C1 witness: after a reading was published, a line of another model with a
\* listed id has been handled
C1_Witness ==
    /\ out_n = 2
    /\ last.kind = "object" /\ last.model = "Other" /\ last.id = IntId(100)
    /\ HasAllSeries(100)

\* C2: a decoded object whose model matches and that carries an id is
\* broadcast (signal.send called once) exactly when the allow-list is empty
\* or its id is in the allow-list.
C2_BroadcastIffAllowed ==
    (last.kind = "object" /\ last.model = ExpectedModel /\ last.id # AbsentId)
      => /\ last.sent \in {0, 1}
         /\ last.sent = 1 <=> (Len(device_ids) = 0 \/ Allowed(last.id, device_ids))

\* C2 witness: with a non-empty allow-list, a listed id was broadcast after
\* an unlisted one was dropped
C2_Witness ==
    /\ Len(device_ids) > 0
    /\ out_n = 2
    /\ last.kind = "object" /\ last.model = ExpectedModel
    /\ last.id = IntId(100) /\ last.sent = 1

\* C3: a stdout line that is not valid JSON is logged and discarded: the
\* read loop goes on, the future stays unresolved and the reader stays
\* Running.
C3_MalformedLineNonFatal ==
    [][ (HandledLine /\ last'.kind \in {"text", "badutf8"})
          => /\ state' = "Running" /\ future' = Pending /\ rpc' = "gather"
             /\ log' = "error:parse" ]_vars

\* C4: rejecting a decoded object is never fatal: when the model does not
\* match, the id is absent, or the id (of any scalar type) is not in the
\* non-empty allow-list, the reader stays Running with the future unresolved
\* and the read loops go on.
C4_RejectionNonFatal ==
    [][ ( /\ HandledLine
          /\ last'.kind = "object"
          /\ \/ last'.model # ExpectedModel
             \/ last'.id = AbsentId
             \/ Len(device_ids) > 0 /\ ~Allowed(last'.id, device_ids) )
          => /\ last'.sent = 0
             /\ state' = "Running" /\ future' = Pending /\ rpc' = "gather" ]_vars

\* no timer thread is waiting for its deadline or running clear_metrics
NoLiveTimer == \A t \in DOMAIN threads : threads[t].st \notin {"waiting", "clearing"}

\* C5: with a clear interval > 0, once a device id has had a reading
\* processed and no further reading for it arrives, its series eventually
\* leave the registry.  Stated on the runs' ends: when the reader delivers
\* nothing more and no timer is pending or firing, so that nothing can
\* change the registry any more, no device that had a reading processed has
\* a series left.
C5_ExpiryEventuallyClears ==
    (clear_interval > 0 /\ rpc \in {"done", "blocked"} /\ NoLiveTimer)
      => \A d \in DOMAIN since : ~HasSeries(LabelOf(d))

\* C6: once data_callback for device d has completed at time t,
\* clear_metrics for d does not run before t + clear_interval: whenever a
\* timer thread is in clear_metrics for d, at least clear_interval has
\* passed since d's last completed data_callback.
C6_NoClearBeforeInterval ==
    \A t \in DOMAIN threads :
        threads[t].st = "clearing" => since[threads[t].args[2]] >= clear_interval

\* a step of timer thread t inside clear_metrics
ClearStepOf(t) == threads[t].st = "clearing" /\ threads'[t] # threads[t]

\* C7: a step of clear_metrics for device d removes the series labelled d
\* from every gauge (first loop) and from every info metric (second loop),
\* and leaves the series of every other label, the publisher's timers and
\* every other timer thread as they were.
C7_ClearRemovesOnlyOwnSeries ==
    [][ \A t \in DOMAIN threads :
          ClearStepOf(t) =>
            LET lbl == LabelOf(threads[t].args[2])
            IN /\ threads[t].pos = 1 => \A k \in DOMAIN metrics : lbl \notin DOMAIN metrics'[k]
               /\ threads[t].pos = 2 => /\ \A n \in DOMAIN model_info :
                                             lbl \notin DOMAIN model_info'[n]
                                        /\ threads'[t].st = "done"
               /\ \A k \in DOMAIN metrics :
                    \A l \in DOMAIN metrics[k] \ {lbl} :
                        l \in DOMAIN metrics'[k] /\ metrics'[k][l] = metrics[k][l]
               /\ \A n \in DOMAIN model_info :
                    \A l \in DOMAIN model_info[n] \ {lbl} :
                        l \in DOMAIN model_info'[n] /\ model_info'[n][l] = model_info[n][l]
               /\ timers' = timers
               /\ \A u \in DOMAIN threads \ {t} : threads'[u] = threads[u] ]_vars

\* C7 witness: device 100's timer has fired and removed its gauges while
\* device 5 keeps every series and its pending timer
C7_Witness ==
    \E t, u \in DOMAIN threads :
        /\ threads[t].st = "clearing" /\ threads[t].pos = 2
        /\ threads[t].args[2] = IntId(100)
        /\ \A k \in DOMAIN metrics : 100 \notin DOMAIN metrics[k]
        /\ threads[u].st = "waiting" /\ threads[u].args[2] = IntId(5)
        /\ HasAllSeries(5)

\* C8: with clear_interval = 0 no ResettableTimer is created, no timer
\* thread is started, and no series that was set is ever removed.
C8_ZeroIntervalNeverClears ==
    [][ clear_interval = 0 =>
          /\ DOMAIN timers' = {}
          /\ \A t \in DOMAIN threads : threads'[t].st = "new"
          /\ \A k \in DOMAIN metrics : DOMAIN metrics[k] \subseteq DOMAIN metrics'[k]
          /\ \A n \in DOMAIN model_info :
               DOMAIN model_info[n] \subseteq DOMAIN model_info'[n] ]_vars

\* C8 witness: expiry disabled, two devices published, time has passed
C8_Witness ==
    /\ clear_interval = 0
    /\ DOMAIN since = {IntId(100), IntId(5)}
    /\ since[IntId(100)] = Interval /\ since[IntId(5)] = Interval
    /\ HasAllSeries(100) /\ HasAllSeries(5)

\* C9: re-arming is atomic with respect to firing: a timer thread that runs
\* clear_metrics is the timer its ResettableTimer currently holds, never one
\* that start() has already replaced by a new deadline.
C9_RearmAtomicWithFiring ==
    [][ \A t \in DOMAIN threads :
          ClearStepOf(t) => timers[threads[t].args[2]].timer = t ]_vars

\* C10: when a handler raises during a broadcast, every connected handler
\* has still been given the reading once the broadcast is over, and the
\* failure does not reach the reader (it stays Running, future unresolved).
C10_HandlerErrorContained ==
    (Len(receivers) > 1 /\ last.raised # "" /\ rpc \notin {"prom", "vm"})
      => /\ \A i \in 1..Len(receivers) :
              \E j \in 1..Len(delivered) : delivered[j] = receivers[i]
         /\ state = "Running" /\ future = Pending

\* a POST of the current broadcast that returned a non-success status or
\* failed at the network level
FailedPost(ps) ==
    \E i \in 1..Len(ps) : ps[i].res \in {"http_error", "conn_error"}

\* C11: a failure of the remote backend is never fatal: when a POST made by
\* the remote publisher's data_callback returns a non-success status or
\* fails at the network level, the reader stays Running, its future stays
\* unresolved and the reader thread goes on (to the next handler or back to
\* the read loops).
C11_RemoteFailureNonFatal ==
    [][ (rpc = "vm" /\ FailedPost(posted'))
          => /\ state' = "Running" /\ future' = Pending
             /\ rpc' \in {"prom", "gather"} ]_vars

\* the remote publisher's data_callback returned normally in this step
VmReturned == rpc = "vm" /\ rpc' \in {"prom", "gather"}

\* C12: for every reading the remote publisher handles, one POST per field
\* descriptor (carrying that field's transformed value) and one POST per
\* model-info descriptor are submitted, all tagged with the reading's id.
C12_EveryFieldPosted ==
    [][ VmReturned
          => /\ Len(posted') = NF + NI
             /\ \A i \in 1..NF :
                  \E j \in 1..Len(posted') :
                     /\ posted'[j].role = "metric"
                     /\ posted'[j].name = FIELDS[i].name
                     /\ posted'[j].value = PostprocessValue(FIELDS[i].post, data[FIELDS[i].key])
             /\ \A i \in 1..NI :
                  \E j \in 1..Len(posted') :
                     posted'[j].role = "info" /\ posted'[j].name = FIELDS_MODEL[i].name
             /\ \A j \in 1..Len(posted') : posted'[j].id = data["id"] ]_vars

\* a step of the local publisher's data_callback
PromStepTaken == rpc = "prom" /\ (pos' # pos \/ rpc' # rpc)

\* the local publisher's data_callback returned normally in this step
PromReturned == rpc = "prom" /\ pos = 3 /\ pos' # 3 /\ rpc' # "done"

\* the payload an info descriptor attaches for a reading
InfoPayload(d, rd) == [ i \in 1..Len(d.keys) |-> rd[d.keys[i]] ]

\* C13: when the local publisher's data_callback completes for a reading of
\* device d, every field's gauge labelled d holds the field's transformed
\* value (the raw value when no transform is declared) and every info
\* metric labelled d holds the listed keys' values; no step of data_callback
\* changes a series of another label.
C13_CallbackSetsEveryGauge ==
    [][ /\ PromReturned =>
             LET lbl == LabelOf(data["id"])
             IN /\ \A i \in 1..NF :
                     /\ lbl \in DOMAIN metrics'[FIELDS[i].key]
                     /\ metrics'[FIELDS[i].key][lbl]
                          = PostprocessValue(FIELDS[i].post, data[FIELDS[i].key])
                /\ \A i \in 1..NI :
                     /\ lbl \in DOMAIN model_info'[FIELDS_MODEL[i].name]
                     /\ model_info'[FIELDS_MODEL[i].name][lbl]
                          = InfoPayload(FIELDS_MODEL[i], data)
        /\ PromStepTaken =>
             LET lbl == LabelOf(data["id"])
             IN /\ \A k \in DOMAIN metrics :
                     \A l \in DOMAIN metrics[k] \ {lbl} :
                        l \in DOMAIN metrics'[k] /\ metrics'[k][l] = metrics[k][l]
                /\ \A n \in DOMAIN model_info :
                     \A l \in DOMAIN model_info[n] \ {lbl} :
                        l \in DOMAIN model_info'[n] /\ model_info'[n][l] = model_info[n][l] ]_vars

\* the timer threads scheduled for a device id and neither fired nor cancelled
PendingTimers(ths, id) ==
    { t \in DOMAIN ths : ths[t].st = "waiting" /\ ths[t].args[2] = id }

\* C14: publishing is idempotent on the local registry: when the local
\* publisher's data_callback completes for a reading that is the same as
\* the reading delivered just before it, the registry holds for the device
\* what one delivery leaves (one series per metric, with the reading's
\* values), and the device has exactly one pending timer.
C14_RepublishIdempotent ==
    [][ (PromReturned /\ last.again) =>
          LET lbl == LabelOf(data["id"])
          IN /\ \A i \in 1..NF :
                  /\ lbl \in DOMAIN metrics'[FIELDS[i].key]
                  /\ metrics'[FIELDS[i].key][lbl]
                       = PostprocessValue(FIELDS[i].post, last.obj[FIELDS[i].key])
             /\ \A i \in 1..NI :
                  /\ lbl \in DOMAIN model_info'[FIELDS_MODEL[i].name]
                  /\ model_info'[FIELDS_MODEL[i].name][lbl]
                       = InfoPayload(FIELDS_MODEL[i], last.obj)
             /\ clear_interval > 0
                  => Cardinality(PendingTimers(threads', data["id"])) = 1 ]_vars

\* C15: the coordinator's outcome tells a reader failure from a clean exit:
\* run returns only after the future is resolved; when the future carries
\* an exception the failure has been logged with its context and the
\* process ends with a non-zero exit status; when it carries the child's
\* exit code the exit has been logged and the process ends.
C15_OutcomeDistinguished ==
    /\ mpc \in {"returned", "exited"} => future.st # "pending"
    /\ (mpc = "exited" /\ future.st = "exception")
         => log = "exception:reader" /\ exit_code # 0
    /\ (mpc = "exited" /\ future.st = "result")
         => log = "debug:exited" /\ exit_code >= 0

\* a broadcast has been made for the last line and send() is over
BroadcastOver == last.sent = 1 /\ rpc \notin {"prom", "vm", "blocked"}

\* C16: a broadcast reading is delivered, before process_data returns,
\* exactly once to every connected handler and in subscription order, the
\* local publisher before the remote one.  (Stated for broadcasts in which
\* no handler raised.)
C16_DeliveredInSubscriptionOrder ==
    (BroadcastOver /\ last.raised = "") => delivered = ConnectOrder(receivers)

\* the device ids a timer thread has been scheduled for
ArmedIds == { threads[t].args[2] : t \in { u \in DOMAIN threads : threads[u].st # "new" } }

\* a step in which set_timer re-armed the timer of the reading's device
Rearmed ==
    /\ PromReturned /\ clear_interval > 0
    /\ data["id"] \in DOMAIN timers

\* a step in which timer thread t goes on to call clear_metrics
Fires(t) == threads[t].st = "waiting" /\ threads'[t].st = "clearing"

\* C17: every device id has at most one pending timer (scheduled, neither
\* fired nor cancelled); a re-arm cancels the device's pending timer and
\* schedules one new deadline; and clear_metrics is invoked at most once per
\* arm, only by the timer its ResettableTimer holds at that moment, that is
\* by an arm no re-arm has followed.
C17_AtMostOnePendingTimer ==
    /\ [](\A id \in ArmedIds : Cardinality(PendingTimers(threads, id)) <= 1)
    /\ [][ /\ Rearmed =>
                LET old == timers[data["id"]].timer
                    new == timers'[data["id"]].timer
                IN /\ new # old
                   /\ threads[old].st = "waiting" => threads'[old].st = "done"
                   /\ threads[new].st = "new" /\ threads'[new].st = "waiting"
                   /\ PendingTimers(threads', data["id"]) = {new}
           /\ \A t \in DOMAIN threads :
                /\ Fires(t) => timers[threads[t].args[2]].timer = t
                /\ threads[t].st \in {"clearing", "done"}
                     => threads'[t].st \in {"clearing", "done"} ]_vars

\* C17 witness: device 100 was re-armed: its first timer thread has ended
\* and its second one is pending, held by the device's ResettableTimer
C17_Witness ==
    /\ IntId(100) \in DOMAIN timers
    /\ timers[IntId(100)].timer = 2
    /\ threads[1].st = "done"
    /\ threads[2].st = "waiting" /\ threads[2].args[2] = IntId(100)

\* the reader's state changes: Idle -> Starting -> Running -> Exited | Failed
\* and Starting -> Failed
ReaderTransitions ==
    { << "Idle", "Starting" >>, << "Starting", "Running" >>,
      << "Starting", "Failed" >>, << "Running", "Exited" >>,
      << "Running", "Failed" >> }

\* C18: the reader moves Idle -> Starting -> Running -> Exited | Failed and
\* in no other way (a spawn error takes Starting to Failed); Exited and
\* Failed are absorbing, with no line read and no handler called after
\* either; the future is resolved exactly once, on entering Exited (with the
\* child's exit code) or Failed (with the error raised), and never changes
\* afterwards.
C18_ReaderLifecycle ==
    /\ [](/\ state \in {"Idle", "Starting", "Running", "Exited", "Failed"}
          /\ state = "Exited" <=> future.st = "result"
          /\ state = "Failed" <=> future.st = "exception"
          /\ state = "Exited" => future.rc \in ExitCodes /\ future.exc = ""
          /\ state = "Failed" => future.exc # "")
    /\ [][ /\ state' # state => << state, state' >> \in ReaderTransitions
           /\ state \in {"Exited", "Failed"}
                => /\ state' = state /\ rpc' = "done"
                   /\ out_n' = out_n /\ err_n' = err_n
                   /\ delivered' = delivered /\ posted' = posted
           /\ future # Pending => future' = future
           /\ (state = "Starting" /\ state' = "Failed") => future'.exc = "OSError" ]_vars

\* C18 witness: the reader failed after it had broadcast a reading, and the
\* process has ended
C18_Witness ==
    /\ state = "Failed" /\ future.st = "exception"
    /\ out_n = 2 /\ last.sent = 1
    /\ mpc = "exited"

\* the reader ended with the child's exit code and run()'s wait has returned
TerminatedCleanly ==
    /\ out_eof /\ err_eof
    /\ state = "Exited" /\ future.st = "result" /\ rpc = "done"
    /\ mpc \in {"returned", "exited"}

\* C19: when the child closes both streams and exits and no handler or
\* read step raises, eventually both read loops have finished, the future
\* holds the child's exit code, the reader thread has ended and run()'s
\* blocking wait has returned; and the exit code is never recorded before
\* both streams reached end-of-stream.
C19_Termination ==
    /\ [](future.st = "result" => out_eof /\ err_eof)
    /\ <>(state = "Failed" \/ TerminatedCleanly)

\* every gauge series exposed under the label holds the reading's value
GaugesAreOf(lbl, rd) ==
    \A i \in 1..NF :
       lbl \in DOMAIN metrics[FIELDS[i].key]
         => /\ FIELDS[i].key \in DOMAIN rd
            /\ metrics[FIELDS[i].key][lbl]
                 = PostprocessValue(FIELDS[i].post, rd[FIELDS[i].key])

\* C20: for two accepted readings r1, r2 of one device id, r1 first on
\* stdout, every handler's data_callback for r1 has completed before any
\* handler is called for r2, so that once r2's broadcast is over the gauge
\* values exposed for the device are those of r2.
C20_PerDeviceOrder ==
    /\ [][ (HandledLine /\ last'.same_dev)
             => /\ rpc = "gather" /\ hidx = 0
                /\ delivered = receivers /\ last.raised = "" ]_vars
    /\ []((last.same_dev /\ BroadcastOver)
             => GaugesAreOf(LabelOf(last.id), last.obj))

\* the reader thread is inside a remote publisher's POST that does not
\* return, during the handling of a stdout line
BlockedInPost == rpc = "blocked"

\* the stderr read loop can take its next step: read the line the child
\* wrote, or see the end of the stream
StderrDrainCanStep == ENABLED (ReadStderr \/ StderrEOF)

\* C21: the two drains are not coupled: while the handling of a stdout line
\* is blocked (a data_callback hanging in the remote publisher's POST), the
\* stderr read loop, if it has not reached end-of-stream, can still take
\* its next step and consume what the child wrote.
C21_DrainsNotCoupled ==
    (state = "Running" /\ BlockedInPost /\ ~err_eof) => StderrDrainCanStep

\* the labels under which the registry exposes at least one series
ExposedLabels ==
    UNION ({ DOMAIN metrics[k] : k \in DOMAIN metrics }
             \cup { DOMAIN model_info[n] : n \in DOMAIN model_info })

\* a timer thread is scheduled for the label, or is removing its series
HasTimer(lbl) ==
    \E t \in DOMAIN threads :
       /\ threads[t].st \in {"waiting", "clearing"}
       /\ LabelOf(threads[t].args[2]) = lbl

\* C22: no orphan series: with clear_interval > 0, whenever the local
\* publisher is not in the middle of a data_callback, every device that has
\* a gauge or info series in the registry has an expiry timer; a
\* data_callback that fails part-way leaves no series without one.
C22_NoOrphanSeries ==
    (clear_interval > 0 /\ rpc # "prom")
      => \A lbl \in ExposedLabels : HasTimer(lbl)

====
